---- MODULE Spec2Model ----
(***************************************************************************)
(* A model of the rate-limited request governor of                         *)
(* post-research-papers-to-slack: RateLimiter (src/utils/utilts.py:30-114) *)
(* and the retry_on_error wrapper (src/utils/utilts.py:130-152).           *)
(*                                                                         *)
(* Time.  The code keeps float timestamps in seconds.  The model keeps     *)
(* integer timestamps counted in clock units of 1/Hz second, so that the   *)
(* 0.5 s sleep floor is a whole number of units.  time.monotonic() is the  *)
(* variable mono; time.time() is the variable wall, which advances with    *)
(* mono but can also be set back (the system clock is adjustable).         *)
(*                                                                         *)
(* Threads.  The body of `with self.lock` in acquire is modelled in two    *)
(* steps, Check (lines 62-77) and Commit (lines 79-106), so that the       *)
(* mutual exclusion the lock provides is a property of the model, not an   *)
(* assumption of it.                                                       *)
(***************************************************************************)
EXTENDS Integers, Sequences, FiniteSets, TLC

(* ---------------------------------------------------------------- bounds *)

\* Clock units per second (a quarter of a second is below the 0.5 s floor
\* of the sleep).
Hz == 4
\* Threads that call the limiter.
NumThreads == 2
\* The limits the limiter is constructed with (config.py gives 15, 1000000
\* and 200 by default; the model takes small ones).
PerMinuteRequests == 2
PerMinuteTokens == 3
PerDayRequests == 3
\* Steps of the clocks, times the wall clock is set back, calls of acquire,
\* entries of the token window when record_additional_tokens is called.
MaxTicks == 3
MaxSetBacks == 1
MaxCalls == 4
MaxTokenEntries == 2
\* The largest retries a wrapper is built with.
MaxRetries == 4

(* ------------------------------------------------------------- constants *)

MinuteWindow == 60 * Hz
DayWindow == 86400 * Hz
DefaultWait == 1 * Hz
MinSleep == Hz \div 2

Threads == 1 .. NumThreads
NoThread == 0

\* The amounts by which the clocks advance in one step of the model: one
\* unit, one unit less than a minute, and the rest of a day.
TickSteps == {1, MinuteWindow - 1, DayWindow - MinuteWindow}
\* The amount by which the wall clock is set back.
SetBackSteps == {1}

\* acquire is called with these estimates; the last is more than the
\* per-minute token limit can ever admit.
TokenArgs == {-5, 0, 1, 2, PerMinuteTokens + 1}
PositiveArgs == {n \in TokenArgs : n > 0}
\* record_additional_tokens is called with these amounts.
RecordArgs == {0, 2}

\* retry_on_error(retries=3, delay=5)
DefaultRetries == 3
DefaultDelay == 5
\* What one invocation of the wrapped function does: it returns a text, it
\* returns None, it raises one of the two exceptions line 137 names, or it
\* raises any other exception.
CaughtErrors == {"ResourceExhausted", "GoogleAPIError"}
Outcomes == {"text", "None", "Exception"} \cup CaughtErrors

VARIABLES
    per_minute_requests, per_minute_tokens, per_day_requests,
    minute_requests, day_requests, minute_tokens,
    lock,
    mono, wall, ticks, setbacks,
    pc, arg, tokens_needed, now_monotonic, now_wall, capacity, wake_at,
    ret, slept,
    calls, admissions,
    retries, delay, w_pc, attempt, invocations, outcomes, w_slept, w_result,
    last_error, remote_calls

limiter == <<per_minute_requests, per_minute_tokens, per_day_requests>>
windows == <<minute_requests, day_requests, minute_tokens>>
clocks == <<mono, wall, ticks, setbacks>>
locals == <<arg, tokens_needed, now_monotonic, now_wall, capacity, wake_at>>
wrapper == <<retries, delay, w_pc, attempt, invocations, outcomes, w_slept,
             w_result, last_error, remote_calls>>
vars == <<limiter, windows, lock, clocks, pc, locals, ret, slept, calls,
          admissions, wrapper>>

(* --------------------------------------------------------------- helpers *)

Max2(a, b) == IF a >= b THEN a ELSE b

RECURSIVE MaxOf(_, _)
\* max(wait_times, default=d)
MaxOf(s, d) ==
    IF s = <<>> THEN d
    ELSE IF Tail(s) = <<>> THEN Head(s)
    ELSE Max2(Head(s), MaxOf(Tail(s), d))

RECURSIVE SumTokens(_)
\* sum(token for _, token in self.minute_tokens)
SumTokens(q) == IF q = <<>> THEN 0 ELSE Head(q)[2] + SumTokens(Tail(q))

RECURSIVE PruneRequests_lt(_, _)
\* A faulty prune: an entry exactly one window old is kept (<).
PruneRequests_lt(q, threshold) ==
    IF q # <<>> /\ Head(q) < threshold
    THEN PruneRequests_lt(Tail(q), threshold)
    ELSE q

RECURSIVE PruneRequests(_, _)
\* while q and q[0] <= threshold: q.popleft()
PruneRequests(q, threshold) ==
    IF q # <<>> /\ Head(q) <= threshold
    THEN PruneRequests(Tail(q), threshold)
    ELSE q

RECURSIVE PruneTokens(_, _)
\* while q and q[0][0] <= threshold: q.popleft()
PruneTokens(q, threshold) ==
    IF q # <<>> /\ Head(q)[1] <= threshold
    THEN PruneTokens(Tail(q), threshold)
    ELSE q

\* A faulty normalisation: zero taken as a valid estimate (<).
Normalize_negative(n) == IF n < 0 THEN 1 ELSE n

\* if tokens_needed <= 0: tokens_needed = 1
Normalize(n) == IF n <= 0 THEN 1 ELSE n

\* A limiter without mutual exclusion: the lock can always be taken.
LockFree_always == TRUE

\* The lock can be taken.
LockFree == lock = NoThread

(* ------------------------------------------------------------------ Init *)

\* RateLimiter.__init__ (lines 31-43) with no call in progress.
InitLimiter ==
    /\ per_minute_requests = PerMinuteRequests
    /\ per_minute_tokens = PerMinuteTokens
    /\ per_day_requests = PerDayRequests
    /\ minute_requests = <<>>
    /\ day_requests = <<>>
    /\ minute_tokens = <<>>
    /\ lock = NoThread
    /\ mono = 0
    /\ wall = 0
    /\ ticks = 0
    /\ setbacks = 0
    /\ pc = [t \in Threads |-> "idle"]
    /\ arg = [t \in Threads |-> 1]
    /\ tokens_needed = [t \in Threads |-> 1]
    /\ now_monotonic = [t \in Threads |-> 0]
    /\ now_wall = [t \in Threads |-> 0]
    /\ capacity = [t \in Threads |-> <<TRUE, TRUE, TRUE>>]
    /\ wake_at = [t \in Threads |-> 0]
    /\ ret = [t \in Threads |-> "none"]
    /\ slept = [t \in Threads |-> FALSE]
    /\ calls = 0
    /\ admissions = <<>>

\* A wrapper built by retry_on_error(r, delay) that has not been called.
InitWrapper(r) ==
    /\ retries = r
    /\ delay = DefaultDelay
    /\ w_pc = "idle"
    /\ attempt = 0
    /\ invocations = 0
    /\ outcomes = <<>>
    /\ w_slept = 0
    /\ w_result = "pending"
    /\ last_error = "None"
    /\ remote_calls = 0

Init == InitLimiter /\ InitWrapper(DefaultRetries)

(* --------------------------------------------------------------- clocks *)

\* Time passes: both clocks advance by the same amount.
Tick(d) ==
    /\ ticks < MaxTicks
    /\ mono' = mono + d
    /\ wall' = wall + d
    /\ ticks' = ticks + 1
    /\ UNCHANGED <<limiter, windows, lock, setbacks, pc, locals, ret, slept,
                   calls, admissions, wrapper>>

\* The system clock is set back: time.time() returns a lower value than
\* before, time.monotonic() is not affected.  (wall counts from the start of
\* the run, so a reading can be negative.)
WallSetBack(j) ==
    /\ setbacks < MaxSetBacks
    /\ wall' = wall - j
    /\ setbacks' = setbacks + 1
    /\ UNCHANGED <<limiter, windows, lock, mono, ticks, pc, locals, ret, slept,
                   calls, admissions, wrapper>>

\* The reference point of time.monotonic() is undefined and only differences
\* of readings are used: when no reading is stored anywhere, the origin of
\* the clocks is moved to the present.  (Used where runs are unbounded.)
Rebase ==
    /\ mono > 0
    /\ minute_requests = <<>> /\ day_requests = <<>> /\ minute_tokens = <<>>
    /\ \A t \in Threads : pc[t] \in {"idle", "loop", "returned"}
    /\ mono' = 0
    /\ wall' = 0
    /\ ticks' = 0
    /\ setbacks' = 0
    /\ admissions' = <<>>
    /\ UNCHANGED <<limiter, windows, lock, pc, locals, ret, slept, calls, wrapper>>

(* -------------------------------------------------------------- acquire *)

\* acquire(n) is called: lines 57-59.
Call(t, n) ==
    /\ pc[t] = "idle"
    /\ calls < MaxCalls
    /\ calls' = calls + 1
    /\ arg' = [arg EXCEPT ![t] = n]
    /\ tokens_needed' = [tokens_needed EXCEPT ![t] = Normalize(n)]
    /\ pc' = [pc EXCEPT ![t] = "loop"]
    /\ UNCHANGED <<limiter, windows, lock, clocks, now_monotonic, now_wall,
                   capacity, wake_at, ret, slept, admissions, wrapper>>

\* A faulty request check, off by one (<=).
minute_capacity_available_le(q) == Len(q) <= per_minute_requests
\* A faulty token check, without the tokens the call needs.
token_capacity_available_used(q, n) == SumTokens(q) <= per_minute_tokens

\* A faulty daily check, off by one (<=).
daily_capacity_available_le(q) == Len(q) <= per_day_requests

\* Lines 69-71.
minute_capacity_available(q) == Len(q) < per_minute_requests
\* Lines 67, 72-74.
token_capacity_available(q, n) == SumTokens(q) + n <= per_minute_tokens
\* Lines 75-77.
daily_capacity_available(q) == Len(q) < per_day_requests

\* Lines 62-77: take the lock, read the clocks, prune, evaluate the three
\* checks.
Check(t) ==
    /\ pc[t] = "loop"
    /\ LockFree
    /\ lock' = t
    /\ now_monotonic' = [now_monotonic EXCEPT ![t] = mono]
    /\ now_wall' = [now_wall EXCEPT ![t] = wall]
    /\ minute_requests' = PruneRequests(minute_requests, mono - MinuteWindow)
    /\ minute_tokens' = PruneTokens(minute_tokens, mono - MinuteWindow)
    /\ day_requests' = PruneRequests(day_requests, wall - DayWindow)
    /\ capacity' = [capacity EXCEPT ![t] =
            << minute_capacity_available(minute_requests'),
               token_capacity_available(minute_tokens', tokens_needed[t]),
               daily_capacity_available(day_requests') >>]
    /\ pc' = [pc EXCEPT ![t] = "locked"]
    /\ UNCHANGED <<limiter, clocks, arg, tokens_needed, wake_at, ret, slept,
                   calls, admissions, wrapper>>

\* A faulty admission: the per-minute checks ignored.
Admitted_daily_only(t) == capacity[t][3]

\* Lines 79-83: the condition of the admission.
Admitted(t) == capacity[t][1] /\ capacity[t][2] /\ capacity[t][3]

\* A faulty denial: the daily check made only once the per-minute checks pass.
ReturnsFalse_after_minute(t) == ~capacity[t][3] /\ capacity[t][1] /\ capacity[t][2]
\* A faulty denial: a full minute window reported as a failure.
ReturnsFalse_on_minute(t) == ~capacity[t][3] \/ ~capacity[t][1]

\* Lines 97-103: the condition of `return False`.
ReturnsFalse(t) == ~capacity[t][3]

\* Lines 92, 98: self.minute_requests[0] or self.day_requests[0] of an empty
\* deque raises IndexError.
RaisesIndexError(t) ==
    \/ ~capacity[t][1] /\ minute_requests = <<>>
    \/ ~capacity[t][3] /\ day_requests = <<>>

\* Lines 89-95: the waits of the failing per-minute checks.
WaitTimes(t) ==
    (IF ~capacity[t][1]
     THEN << MinuteWindow - (now_monotonic[t] - Head(minute_requests)) >>
     ELSE <<>>)
    \o
    (IF ~capacity[t][2] /\ minute_tokens # <<>>
     THEN << MinuteWindow - (now_monotonic[t] - Head(minute_tokens)[1]) >>
     ELSE <<>>)

\* A faulty wait: the 0.5 s floor of line 105 left out.
SleepFor_unfloored(t) == MaxOf(WaitTimes(t), DefaultWait)

\* Line 105.
SleepFor(t) == Max2(MaxOf(WaitTimes(t), DefaultWait), MinSleep)

\* Lines 84-87: the admission is recorded in the three windows.
Admit(t) ==
    /\ minute_requests' = Append(minute_requests, now_monotonic[t])
    /\ day_requests' = Append(day_requests, now_wall[t])
    /\ minute_tokens' = Append(minute_tokens, <<now_monotonic[t], tokens_needed[t]>>)
    /\ admissions' = Append(admissions,
            [mono |-> now_monotonic[t], wall |-> now_wall[t],
             tokens |-> tokens_needed[t]])
    /\ ret' = [ret EXCEPT ![t] = "True"]
    /\ pc' = [pc EXCEPT ![t] = "returned"]
    /\ UNCHANGED wake_at

\* An IndexError leaves acquire.
Raise(t) ==
    /\ pc' = [pc EXCEPT ![t] = "raised"]
    /\ UNCHANGED <<windows, admissions, ret, wake_at>>

\* Lines 97-103: the daily window is full.
DenyDaily(t) ==
    /\ ret' = [ret EXCEPT ![t] = "False"]
    /\ pc' = [pc EXCEPT ![t] = "returned"]
    /\ UNCHANGED <<windows, admissions, wake_at>>

\* A faulty wait: the tokens of the waiting call are booked in the token
\* window before the sleep.
Backoff_reserving(t) ==
    /\ wake_at' = [wake_at EXCEPT ![t] = mono + SleepFor(t)]
    /\ pc' = [pc EXCEPT ![t] = "sleep"]
    /\ minute_tokens' = Append(minute_tokens, <<now_monotonic[t], tokens_needed[t]>>)
    /\ UNCHANGED <<minute_requests, day_requests, admissions, ret>>

\* Lines 105-106: only per-minute checks fail; the thread sleeps, the lock
\* released.
Backoff(t) ==
    /\ wake_at' = [wake_at EXCEPT ![t] = mono + SleepFor(t)]
    /\ pc' = [pc EXCEPT ![t] = "sleep"]
    /\ UNCHANGED <<windows, admissions, ret>>

\* A faulty acquire: lines 105-106 inside the `with` block, so that the
\* thread that goes to sleep keeps the lock.
Commit_sleep_locked(t) ==
    /\ pc[t] = "locked"
    /\ IF Admitted(t) THEN Admit(t)
       ELSE IF RaisesIndexError(t) THEN Raise(t)
       ELSE IF ReturnsFalse(t) THEN DenyDaily(t)
       ELSE Backoff(t)
    /\ lock' = IF Admitted(t) \/ RaisesIndexError(t) \/ ReturnsFalse(t)
               THEN NoThread ELSE t
    /\ now_monotonic' = [now_monotonic EXCEPT ![t] = 0]
    /\ now_wall' = [now_wall EXCEPT ![t] = 0]
    /\ capacity' = [capacity EXCEPT ![t] = <<TRUE, TRUE, TRUE>>]
    /\ UNCHANGED <<limiter, clocks, arg, tokens_needed, slept, calls, wrapper>>

\* Lines 79-106: the rest of the critical section, and its exit.
Commit(t) ==
    /\ pc[t] = "locked"
    /\ IF Admitted(t) THEN Admit(t)
       ELSE IF RaisesIndexError(t) THEN Raise(t)
       ELSE IF ReturnsFalse(t) THEN DenyDaily(t)
       ELSE Backoff(t)
    /\ lock' = NoThread
    /\ now_monotonic' = [now_monotonic EXCEPT ![t] = 0]
    /\ now_wall' = [now_wall EXCEPT ![t] = 0]
    /\ capacity' = [capacity EXCEPT ![t] = <<TRUE, TRUE, TRUE>>]
    /\ UNCHANGED <<limiter, clocks, arg, tokens_needed, slept, calls, wrapper>>

\* Line 106: time.sleep(sleep_for) returns, the loop starts over.
Wake(t) ==
    /\ pc[t] = "sleep"
    /\ mono >= wake_at[t]
    /\ pc' = [pc EXCEPT ![t] = "loop"]
    /\ slept' = [slept EXCEPT ![t] = TRUE]
    /\ wake_at' = [wake_at EXCEPT ![t] = 0]
    /\ UNCHANGED <<limiter, windows, lock, clocks, arg, tokens_needed,
                   now_monotonic, now_wall, capacity, ret, calls, admissions,
                   wrapper>>

\* The caller has taken the value acquire returned (lines 173, 196).
Return(t) ==
    /\ pc[t] = "returned"
    /\ pc' = [pc EXCEPT ![t] = "idle"]
    /\ ret' = [ret EXCEPT ![t] = "none"]
    /\ slept' = [slept EXCEPT ![t] = FALSE]
    /\ arg' = [arg EXCEPT ![t] = 1]
    /\ tokens_needed' = [tokens_needed EXCEPT ![t] = 1]
    /\ UNCHANGED <<limiter, windows, lock, clocks, now_monotonic, now_wall,
                   capacity, wake_at, calls, admissions, wrapper>>

(* ----------------------------------------------- record_additional_tokens *)

\* A faulty record: no early return for tokens <= 0 (lines 109-110 left out).
RecordAdditionalTokens_unchecked(t, n) ==
    /\ pc[t] = "idle"
    /\ LockFree
    /\ Len(minute_tokens) < MaxTokenEntries
    /\ minute_tokens' = PruneTokens(Append(minute_tokens, <<mono, n>>),
                                    mono - MinuteWindow)
    /\ minute_requests' = PruneRequests(minute_requests, mono - MinuteWindow)
    /\ day_requests' = PruneRequests(day_requests, wall - DayWindow)
    /\ UNCHANGED <<limiter, lock, clocks, pc, locals, ret, slept, calls,
                   admissions, wrapper>>

\* Lines 108-114; the critical section in one step.
RecordAdditionalTokens(t, n) ==
    /\ pc[t] = "idle"
    /\ IF n <= 0
       THEN UNCHANGED <<windows>>
       ELSE /\ LockFree
            /\ Len(minute_tokens) < MaxTokenEntries
            /\ minute_tokens' = PruneTokens(Append(minute_tokens, <<mono, n>>),
                                            mono - MinuteWindow)
            /\ minute_requests' = PruneRequests(minute_requests, mono - MinuteWindow)
            /\ day_requests' = PruneRequests(day_requests, wall - DayWindow)
    /\ UNCHANGED <<limiter, lock, clocks, pc, locals, ret, slept, calls,
                   admissions, wrapper>>

(* --------------------------------------------------------- retry_on_error *)

\* A faulty loop, range(1, retries): one attempt short.
HasAttempt_short(a) == a < retries

\* Line 134: for attempt in range(1, retries + 1) has another value.
HasAttempt(a) == a <= retries

\* Lines 132-134: the wrapper is called; with no attempt to make it goes to
\* lines 147-148.
WrapperCall ==
    /\ w_pc = "idle"
    /\ attempt' = 1
    /\ IF HasAttempt(1)
       THEN w_pc' = "attempt" /\ UNCHANGED w_result
       ELSE w_pc' = "done" /\ w_result' = "None"
    /\ UNCHANGED <<retries, delay, invocations, outcomes, w_slept, last_error>>

\* Lines 135-138: one invocation of the wrapped function, with outcome o.
Invoke(o) ==
    /\ w_pc = "attempt"
    /\ invocations' = invocations + 1
    /\ outcomes' = Append(outcomes, o)
    /\ CASE o \in CaughtErrors ->
               /\ last_error' = o
               /\ w_pc' = "sleep"
               /\ UNCHANGED w_result
         [] o = "Exception" ->
               /\ w_pc' = "raised"
               /\ UNCHANGED <<w_result, last_error>>
         [] OTHER ->
               /\ w_pc' = "done"
               /\ w_result' = o
               /\ UNCHANGED last_error
    /\ UNCHANGED <<retries, delay, attempt, w_slept>>

\* A faulty retry: the next attempt at once, without the sleep of line 146.
RetrySleep_nosleep ==
    /\ w_pc = "sleep"
    /\ attempt' = attempt + 1
    /\ IF HasAttempt(attempt + 1)
       THEN w_pc' = "attempt" /\ UNCHANGED w_result
       ELSE w_pc' = "done" /\ w_result' = "None"
    /\ UNCHANGED <<retries, delay, invocations, outcomes, w_slept, last_error>>

\* Lines 146-148: time.sleep(delay), then the next attempt, or None after
\* the last.
RetrySleep ==
    /\ w_pc = "sleep"
    /\ w_slept' = w_slept + delay
    /\ attempt' = attempt + 1
    /\ IF HasAttempt(attempt + 1)
       THEN w_pc' = "attempt" /\ UNCHANGED w_result
       ELSE w_pc' = "done" /\ w_result' = "None"
    /\ UNCHANGED <<retries, delay, invocations, outcomes, last_error>>

(* ------------------------------------- fetch_summary, fetch_interesting_points *)

\* A faulty fetch: the result of acquire not looked at.
MayGenerate_always == TRUE

\* Lines 173, 196: `if not rate_limiter.acquire(tokens_needed)` is not taken;
\* the caller is thread 1.
MayGenerate == ret[1] = "True"

\* The call of acquire made by thread t is over.
AcquireReturned(t) ==
    /\ pc' = [pc EXCEPT ![t] = "idle"]
    /\ ret' = [ret EXCEPT ![t] = "none"]
    /\ slept' = [slept EXCEPT ![t] = FALSE]
    /\ arg' = [arg EXCEPT ![t] = 1]
    /\ tokens_needed' = [tokens_needed EXCEPT ![t] = 1]

\* Lines 172-173, 195-196: an attempt of the wrapped function starts with an
\* acquire of the estimate n.
FetchAcquire(n) ==
    /\ w_pc = "attempt"
    /\ pc[1] = "idle"
    /\ Call(1, n)

\* The acquire of the attempt goes on.
FetchAdmission ==
    /\ w_pc = "attempt"
    /\ (Check(1) \/ Commit(1) \/ Wake(1))

\* Lines 173-175, 196-198: acquire returned False, the function returns None.
FetchSkip ==
    /\ w_pc = "attempt"
    /\ pc[1] = "returned"
    /\ ~MayGenerate
    /\ Invoke("None")
    /\ AcquireReturned(1)
    /\ UNCHANGED <<limiter, windows, lock, clocks, now_monotonic, now_wall,
                   capacity, wake_at, calls, admissions, remote_calls>>

\* Lines 177-184, 200-207: generate_content is called and the function ends
\* with outcome o: the text (n more tokens are recorded first), None for an
\* empty text, or an exception.
FetchGenerate(o, n) ==
    /\ w_pc = "attempt"
    /\ pc[1] = "returned"
    /\ MayGenerate
    /\ remote_calls' = remote_calls + 1
    /\ Invoke(o)
    /\ AcquireReturned(1)
    /\ IF o = "text"
       THEN /\ minute_tokens' = PruneTokens(Append(minute_tokens, <<mono, n>>),
                                            mono - MinuteWindow)
            /\ minute_requests' = PruneRequests(minute_requests, mono - MinuteWindow)
            /\ day_requests' = PruneRequests(day_requests, wall - DayWindow)
       ELSE UNCHANGED windows
    /\ UNCHANGED <<limiter, lock, clocks, now_monotonic, now_wall, capacity,
                   wake_at, calls, admissions>>

\* The wrapper has returned (or raised) and the next wrapped function is
\* called: src/main.py:55-56, and the next run of the job.
FetchNext ==
    /\ w_pc \in {"done", "raised"}
    /\ w_pc' = "idle"
    /\ attempt' = 0
    /\ invocations' = 0
    /\ outcomes' = <<>>
    /\ w_slept' = 0
    /\ w_result' = "pending"
    /\ last_error' = "None"
    /\ UNCHANGED <<limiter, windows, lock, clocks, pc, locals, ret, slept,
                   calls, admissions, retries, delay, remote_calls>>

(* ------------------------------------------------------------------ Next *)

\* Two threads on the limiter; the clocks advance by less than a minute or
\* by one unit.
MinuteSteps == {1, MinuteWindow - 1}

Next ==
    \/ \E d \in MinuteSteps : Tick(d)
    \/ \E t \in Threads : \E n \in PositiveArgs : Call(t, n)
    \/ \E t \in Threads : Check(t)
    \/ \E t \in Threads : Commit(t)
    \/ \E t \in Threads : Wake(t)
    \/ \E t \in Threads : Return(t)
    \/ \E t \in Threads : \E n \in RecordArgs : RecordAdditionalTokens(t, n)

Spec == Init /\ [][Next]_vars

\* One thread on the limiter over days, the wall clock adjustable.  On this
\* scale the critical section takes no time: the clocks advance while the
\* lock is free.
NextDay ==
    \/ \E d \in TickSteps : LockFree /\ Tick(d)
    \/ \E j \in SetBackSteps : WallSetBack(j)
    \/ \E n \in TokenArgs : Call(1, n)
    \/ Check(1)
    \/ Commit(1)
    \/ Wake(1)
    \/ Return(1)
    \/ \E n \in RecordArgs : RecordAdditionalTokens(1, n)

SpecDay == Init /\ [][NextDay]_vars

\* One thread on the limiter in runs of unbounded length: time advances and
\* the thread is scheduled.
TimePasses == \E d \in MinuteSteps : Tick(d)
ThreadRuns(t) == Check(t) \/ Commit(t) \/ Wake(t) \/ Return(t)

NextFair ==
    \/ TimePasses
    \/ Rebase
    \/ \E n \in TokenArgs : Call(1, n)
    \/ ThreadRuns(1)

SpecFair ==
    /\ Init
    /\ [][NextFair]_vars
    /\ WF_vars(TimePasses)
    /\ WF_vars(ThreadRuns(1))

\* The retry wrapper alone, built with any number of retries.
InitRetry == InitLimiter /\ \E r \in 0 .. MaxRetries : InitWrapper(r)

NextRetry ==
    \/ /\ WrapperCall
       /\ UNCHANGED <<limiter, windows, lock, clocks, pc, locals, ret, slept,
                      calls, admissions, remote_calls>>
    \/ /\ \E o \in Outcomes : Invoke(o)
       /\ UNCHANGED <<limiter, windows, lock, clocks, pc, locals, ret, slept,
                      calls, admissions, remote_calls>>
    \/ /\ RetrySleep
       /\ UNCHANGED <<limiter, windows, lock, clocks, pc, locals, ret, slept,
                      calls, admissions, remote_calls>>

SpecRetry == InitRetry /\ [][NextRetry]_vars

\* The limiter built with the limits (2 requests/min, 100 tokens/min,
\* 5 requests/day), empty, and one thread that calls acquire(40) three times
\* in sequence while time passes; the thread is scheduled and time advances.
InitScenario ==
    /\ per_minute_requests = 2
    /\ per_minute_tokens = 100
    /\ per_day_requests = 5
    /\ minute_requests = <<>>
    /\ day_requests = <<>>
    /\ minute_tokens = <<>>
    /\ lock = NoThread
    /\ mono = 0
    /\ wall = 0
    /\ ticks = 0
    /\ setbacks = 0
    /\ pc = [t \in Threads |-> "idle"]
    /\ arg = [t \in Threads |-> 1]
    /\ tokens_needed = [t \in Threads |-> 1]
    /\ now_monotonic = [t \in Threads |-> 0]
    /\ now_wall = [t \in Threads |-> 0]
    /\ capacity = [t \in Threads |-> <<TRUE, TRUE, TRUE>>]
    /\ wake_at = [t \in Threads |-> 0]
    /\ ret = [t \in Threads |-> "none"]
    /\ slept = [t \in Threads |-> FALSE]
    /\ calls = 0
    /\ admissions = <<>>
    /\ InitWrapper(DefaultRetries)

NextScenario ==
    \/ TimePasses
    \/ calls < 3 /\ Call(1, 40)
    \/ ThreadRuns(1)

SpecScenario ==
    /\ InitScenario
    /\ [][NextScenario]_vars
    /\ WF_vars(TimePasses)
    /\ WF_vars(ThreadRuns(1))

\* The job's thread alone: the wrapped fetch functions called one after the
\* other on the limiter, while time passes.
NextFetch ==
    \/ TimePasses
    \/ /\ WrapperCall
       /\ UNCHANGED <<limiter, windows, lock, clocks, pc, locals, ret, slept,
                      calls, admissions, remote_calls>>
    \/ \E n \in PositiveArgs : FetchAcquire(n)
    \/ FetchAdmission
    \/ FetchSkip
    \/ \E o \in Outcomes : \E n \in {m \in RecordArgs : m > 0} : FetchGenerate(o, n)
    \/ /\ RetrySleep
       /\ UNCHANGED <<limiter, windows, lock, clocks, pc, locals, ret, slept,
                      calls, admissions, remote_calls>>
    \/ FetchNext

SpecFetch == Init /\ [][NextFetch]_vars

(* ================================================================ claims *)

\* The admissions made within the minute that ends with admission i, by the
\* monotonic timestamps they were recorded with.
InMinuteOf(i) ==
    {j \in 1 .. Len(admissions) :
        /\ admissions[j].mono > admissions[i].mono - MinuteWindow
        /\ admissions[j].mono <= admissions[i].mono}

RECURSIVE TokensOf(_)
TokensOf(S) ==
    IF S = {} THEN 0
    ELSE LET j == CHOOSE k \in S : TRUE
         IN admissions[j].tokens + TokensOf(S \ {j})

\* C1: in every reachable state, whatever the interleaving of the threads'
\* acquire and record_additional_tokens calls, the admissions whose monotonic
\* timestamps lie within any one span of 60 seconds (a span that ends with an
\* admission and reaches back less than 60 s) number at most
\* per_minute_requests.
C1_MinuteRequestsNeverExceeded ==
    \A i \in 1 .. Len(admissions) :
        Cardinality(InMinuteOf(i)) <= per_minute_requests

\* The window was full, rolled over, and a later caller was admitted, with
\* record_additional_tokens calls in between.
C1_Witness ==
    /\ Len(admissions) > per_minute_requests
    /\ Cardinality(InMinuteOf(Len(admissions))) = per_minute_requests
    /\ Len(minute_tokens) > Len(minute_requests)

\* C2: in every reachable state the normalized tokens_needed of the
\* admissions within any one span of 60 seconds sum to at most
\* per_minute_tokens.
C2_MinuteTokensNeverExceeded ==
    \A i \in 1 .. Len(admissions) :
        TokensOf(InMinuteOf(i)) <= per_minute_tokens

\* Two admissions within one minute use the token limit up exactly while
\* another caller, who needs more, sleeps.
C2_Witness ==
    /\ Len(admissions) >= 2
    /\ Cardinality(InMinuteOf(Len(admissions))) >= 2
    /\ TokensOf(InMinuteOf(Len(admissions))) = per_minute_tokens
    /\ \E t \in Threads : pc[t] = "sleep"

\* The admissions made within the 24 hours that end with admission i, by
\* the wall-clock timestamps they were recorded with.
InDayOf(i) ==
    {j \in 1 .. Len(admissions) :
        /\ admissions[j].wall > admissions[i].wall - DayWindow
        /\ admissions[j].wall <= admissions[i].wall}

\* C3: in every reachable state the admissions whose wall-clock timestamps
\* lie within any one span of 24 hours number at most per_day_requests.
C3_DayRequestsNeverExceeded ==
    \A i \in 1 .. Len(admissions) :
        Cardinality(InDayOf(i)) <= per_day_requests

\* Thread t leaves the critical section of acquire in this step.
CommitStep(t) == pc[t] = "locked" /\ pc'[t] # "locked"

\* The three checks, evaluated on the windows as they are now.
AdmissibleNow(t) ==
    /\ minute_capacity_available(minute_requests)
    /\ token_capacity_available(minute_tokens, tokens_needed[t])
    /\ daily_capacity_available(day_requests)

\* Thread t is admitted in this step: acquire returns True and each window
\* gets the entry of this admission.
AdmittedStep(t) ==
    /\ pc'[t] = "returned" /\ ret'[t] = "True"
    /\ minute_requests' = Append(minute_requests, now_monotonic[t])
    /\ day_requests' = Append(day_requests, now_wall[t])
    /\ minute_tokens' = Append(minute_tokens, <<now_monotonic[t], tokens_needed[t]>>)

\* C4 (as amended): the check and the recording are one atomic step: a
\* thread that leaves the critical section is admitted exactly when the three
\* checks hold on the windows as they are at that moment, the windows stay
\* within the request limits, and a thread that is not admitted goes on to
\* sleep and retry when the daily window has room, and returns False when it
\* is full.
C4_CheckAndRecordAtomic ==
    [][\A t \in Threads : CommitStep(t) =>
          /\ AdmittedStep(t) <=> AdmissibleNow(t)
          /\ Len(minute_requests') <= per_minute_requests
          /\ Len(day_requests') <= per_day_requests
          /\ ~AdmissibleNow(t) =>
                IF daily_capacity_available(day_requests)
                THEN pc'[t] = "sleep" /\ ret'[t] = "none"
                ELSE pc'[t] = "returned" /\ ret'[t] = "False"]_vars

\* C4 (as stated): ... and every thread that is not admitted goes on to
\* wait and retry.
C4_AsStated ==
    [][\A t \in Threads : CommitStep(t) =>
          /\ AdmittedStep(t) <=> AdmissibleNow(t)
          /\ Len(minute_requests') <= per_minute_requests
          /\ Len(day_requests') <= per_day_requests
          /\ ~AdmissibleNow(t) => pc'[t] = "sleep"]_vars

\* Both threads called acquire(1) at time 0 with one request left in the
\* minute: one has been admitted, the other sleeps.
C4_Witness ==
    /\ mono = 0
    /\ Len(minute_requests) = per_minute_requests
    /\ \E t1, t2 \in Threads :
          /\ pc[t1] = "returned" /\ ret[t1] = "True"
          /\ pc[t2] = "sleep" /\ tokens_needed[t2] = 1
          /\ SumTokens(minute_tokens) + 1 <= per_minute_tokens

\* C5: a thread whose iteration found the pruned daily window full leaves
\* the critical section with False, in that iteration and without sleeping,
\* whatever the per-minute checks found and whether or not it slept before.
C5_DailyDenialImmediate ==
    [][\A t \in Threads : (CommitStep(t) /\ ~capacity[t][3]) =>
          /\ pc'[t] = "returned" /\ ret'[t] = "False"
          /\ wake_at'[t] = wake_at[t]
          /\ slept'[t] = slept[t]]_vars

\* A caller that slept on a per-minute limit found the daily window full
\* afterwards, the token check failing too, and got False.
C5_Witness ==
    \E t \in Threads :
        /\ pc[t] = "returned" /\ ret[t] = "False" /\ slept[t]
        /\ ~token_capacity_available(minute_tokens, tokens_needed[t])
        /\ ~daily_capacity_available(day_requests)

\* C9: acquire returns False only out of an iteration in which the daily
\* window is full; a thread that fails only per-minute checks goes to sleep
\* and returns nothing.
C9_FalseOnlyOnDaily ==
    [][\A t \in Threads :
          /\ (ret'[t] = "False" /\ ret[t] # "False") =>
                (pc[t] = "locked" /\ ~daily_capacity_available(day_requests))
          /\ (CommitStep(t) /\ ~AdmissibleNow(t)
                /\ daily_capacity_available(day_requests)) =>
                (pc'[t] = "sleep" /\ ret'[t] = "none" /\ wake_at'[t] > mono)]_vars

\* A caller sleeps for the second time on the minute request limit, the
\* daily window still having room.
C9_Witness ==
    \E t \in Threads :
        /\ pc[t] = "sleep" /\ slept[t] /\ ret[t] = "none"
        /\ ~minute_capacity_available(minute_requests)
        /\ daily_capacity_available(day_requests)

\* What acquire(1) does in the critical section at time now, on the windows
\* as they are: the wait of line 105.
WaitOfOne(now) ==
    LET w1 == IF ~minute_capacity_available(minute_requests)
              THEN << MinuteWindow - (now - Head(minute_requests)) >>
              ELSE <<>>
        w2 == IF ~token_capacity_available(minute_tokens, 1) /\ minute_tokens # <<>>
              THEN << MinuteWindow - (now - Head(minute_tokens)[1]) >>
              ELSE <<>>
    IN Max2(MaxOf(w1 \o w2, DefaultWait), MinSleep)

\* C6: a call acquire(n) with n <= 0 (0 and -5 here) goes on with
\* tokens_needed = 1 and leaves the critical section as acquire(1) would on
\* the same windows: admitted with the entry (now, 1) appended to the token
\* window, denied, or asleep for the same time; and no entry of the token
\* window ever has a cost below 1.
C6_NonPositiveAsOne ==
    [][\A t \in Threads :
          /\ (pc[t] = "idle" /\ pc'[t] = "loop" /\ arg'[t] <= 0) =>
                tokens_needed'[t] = 1
          /\ (CommitStep(t) /\ arg[t] <= 0) =>
                IF /\ minute_capacity_available(minute_requests)
                   /\ token_capacity_available(minute_tokens, 1)
                   /\ daily_capacity_available(day_requests)
                THEN /\ pc'[t] = "returned" /\ ret'[t] = "True"
                     /\ minute_tokens' =
                            Append(minute_tokens, <<now_monotonic[t], 1>>)
                ELSE IF ~daily_capacity_available(day_requests)
                THEN /\ pc'[t] = "returned" /\ ret'[t] = "False"
                     /\ minute_tokens' = minute_tokens
                ELSE /\ pc'[t] = "sleep"
                     /\ wake_at'[t] = mono + WaitOfOne(now_monotonic[t])
                     /\ minute_tokens' = minute_tokens
          /\ \A i \in DOMAIN minute_tokens' : minute_tokens'[i][2] >= 1]_vars

\* acquire(-5) had to wait on the token limit, was then admitted, and its
\* entry in the token window has cost 1.
C6_Witness ==
    /\ pc[1] = "returned" /\ ret[1] = "True" /\ arg[1] = -5 /\ slept[1]
    /\ minute_tokens # <<>>
    /\ minute_tokens[Len(minute_tokens)] = <<mono, 1>>

\* A step that prunes: the Check of an acquire iteration, or a
\* record_additional_tokens call with a positive amount.
CheckStep(t) == pc[t] = "loop" /\ pc'[t] = "locked"
RecordStep == pc' = pc /\ minute_tokens' # minute_tokens

\* q1 is q with its first k entries removed.
IsTailOf(q1, q, k) ==
    /\ k >= 0 /\ k <= Len(q)
    /\ q1 = SubSeq(q, k + 1, Len(q))

\* The prune of one step, seen from outside: the number of entries each
\* window lost at its head (the token window of a record step first got one
\* entry at its tail).
LostRequests == Len(minute_requests) - Len(minute_requests')
LostDay == Len(day_requests) - Len(day_requests')
LostTokens(appended) == Len(minute_tokens) + appended - Len(minute_tokens')

PruneRemovesFromHead(appended) ==
    /\ IsTailOf(minute_requests', minute_requests, LostRequests)
    /\ IsTailOf(day_requests', day_requests, LostDay)
    /\ IF appended = 0
       THEN IsTailOf(minute_tokens', minute_tokens, LostTokens(0))
       ELSE \E n \in RecordArgs :
               IsTailOf(minute_tokens', Append(minute_tokens, <<mono, n>>),
                        LostTokens(1))

\* Every entry left in the two minute windows is less than 60 s old.
MinuteEntriesWithin ==
    /\ \A i \in DOMAIN minute_requests' : mono - minute_requests'[i] < MinuteWindow
    /\ \A i \in DOMAIN minute_tokens' : mono - minute_tokens'[i][1] < MinuteWindow

InAcquire(t) == pc[t] \in {"loop", "locked", "sleep"}

\* The model's clocks have steps left.
TimeCanPass == ticks < MaxTicks

\* C8: every call of acquire returns: a thread inside acquire is later
\* outside it, with True or False, as long as time passes and the thread is
\* scheduled (the fairness of SpecFair).
C8_AcquireReturns ==
    \A t \in Threads :
        InAcquire(t) ~> (pc[t] = "returned" \/ ~TimeCanPass)

\* Every invocation of the wrapped function so far has raised one of the
\* errors the wrapper handles.
FailedEveryAttempt == \A i \in DOMAIN outcomes : outcomes[i] \in CaughtErrors

\* C10: a wrapped function that fails on every attempt has been invoked
\* exactly `retries` times when the wrapper returns, and the wrapper returns
\* None; on the way it is never invoked more than `retries` times and no
\* error leaves the wrapper.
C10_AlwaysFailingInvokedRetriesTimes ==
    FailedEveryAttempt =>
        /\ invocations = Len(outcomes)
        /\ invocations <= retries
        /\ w_pc # "raised"
        /\ w_pc = "done" => (invocations = retries /\ w_result = "None")

\* The default wrapper (3 attempts) has returned None after three failures
\* of both kinds.
C10_Witness ==
    /\ retries = DefaultRetries
    /\ w_pc = "done" /\ w_result = "None"
    /\ invocations = DefaultRetries
    /\ FailedEveryAttempt
    /\ {outcomes[i] : i \in DOMAIN outcomes} = CaughtErrors

\* An invocation of the wrapped function succeeded: it returned (a text or
\* None) instead of raising.
Succeeded(o) == o \in {"text", "None"}

\* The attempts before the last one have all raised an error the wrapper
\* handles.
FailedBeforeLast ==
    \A i \in 1 .. Len(outcomes) - 1 : outcomes[i] \in CaughtErrors

\* C11: the wrapper stops at the first successful attempt: there is no
\* invocation after a success, and a wrapper whose last attempt succeeded has
\* returned that attempt's result, having slept `delay` once for each failed
\* attempt before it; so a function that fails once and then succeeds gives
\* its second result after exactly one sleep and is not invoked a third time.
C11_StopsAtFirstSuccess ==
    /\ \A i \in 1 .. Len(outcomes) - 1 : ~Succeeded(outcomes[i])
    /\ (outcomes # <<>> /\ Succeeded(outcomes[Len(outcomes)])) =>
          /\ w_pc = "done"
          /\ w_result = outcomes[Len(outcomes)]
          /\ invocations = Len(outcomes)
          /\ FailedBeforeLast
          /\ w_slept = delay * (Len(outcomes) - 1)

\* The default wrapper: the first attempt failed, the second returned a
\* text, the wrapper has returned it after one sleep of 5 s, one attempt
\* unused.
C11_Witness ==
    /\ retries = DefaultRetries
    /\ Len(outcomes) = 2
    /\ outcomes[1] \in CaughtErrors /\ outcomes[2] = "text"
    /\ w_pc = "done" /\ w_result = "text"
    /\ invocations = 2
    /\ w_slept = DefaultDelay

\* C12: no failure of the wrapped call, of whatever kind, leaves the wrapper
\* as an exception.
C12_NoExceptionLeavesWrapper == w_pc # "raised"

\* The check of an acquire iteration was made less than 60 s after the
\* first admission.
InMinuteOfFirst(t) == now_monotonic[t] - admissions[1].mono < MinuteWindow

\* The third call of the scenario is in progress.
ThirdCall == calls = 3 /\ InAcquire(1)

\* C13: with the limits (2, 100, 5) and an empty limiter, of three
\* sequential acquire(40) calls the first and the second are admitted in
\* their first iteration without sleeping (2 requests and 80 tokens recorded
\* when they fall in one minute); the third, checked within the minute of the
\* first admission, is not admitted and not denied but sleeps at least until
\* the first admission is 60 s old, is admitted only then, and once it has
\* slept its next check admits it; it returns True if time goes on.
C13_ThreeCallsScenario ==
    /\ [][CommitStep(1) =>
            /\ ret'[1] # "False"
            /\ Len(admissions) < 2 =>
                  /\ AdmittedStep(1) /\ ~slept[1]
                  /\ (Len(admissions) = 1 /\ InMinuteOfFirst(1)) =>
                        /\ Len(minute_requests') = 2
                        /\ SumTokens(minute_tokens') = 80
            /\ Len(admissions) = 2 =>
                  IF InMinuteOfFirst(1)
                  THEN /\ ~AdmittedStep(1)
                       /\ pc'[1] = "sleep"
                       /\ wake_at'[1] >= admissions[1].mono + MinuteWindow
                       /\ ~slept[1]
                  ELSE AdmittedStep(1)]_vars
    /\ ThirdCall ~> ((pc[1] = "returned" /\ ret[1] = "True") \/ ~TimeCanPass)

\* The three calls were made within one minute; the third slept and was
\* admitted once the first admission was 60 s old.
C13_Witness ==
    /\ calls = 3 /\ Len(admissions) = 3
    /\ pc[1] = "returned" /\ ret[1] = "True" /\ slept[1]
    /\ admissions[2].mono - admissions[1].mono < MinuteWindow
    /\ admissions[3].mono - admissions[1].mono >= MinuteWindow
    /\ admissions[3].mono - admissions[2].mono < MinuteWindow
    /\ \A i \in 1 .. 3 : admissions[i].tokens = 40

\* q1 is q with some of its first entries removed.
IsSuffixOf(q1, q) == \E k \in 0 .. Len(q) : IsTailOf(q1, q, k)

\* A step of record_additional_tokens that changes the limiter: no thread
\* moves, a window changes.
RecordChanges == pc' = pc /\ windows' # windows

\* C14: record_additional_tokens with tokens <= 0 changes no window (the
\* only steps that change a window without a thread moving in acquire are
\* those of a positive amount); with tokens > 0 it leaves exactly one new
\* entry (now, tokens) at the tail of the minute token window, adds nothing
\* to the minute request window or the daily window (they only lose expired
\* entries at the head), and it can always be taken when the lock is free,
\* whatever the token usage.
C14_RecordAdditionalTokensFrame ==
    /\ [][RecordChanges =>
            \E n \in RecordArgs :
                /\ n > 0
                /\ minute_tokens' # <<>>
                /\ minute_tokens'[Len(minute_tokens')] = <<mono, n>>
                /\ IsSuffixOf(minute_tokens', Append(minute_tokens, <<mono, n>>))
                /\ IsSuffixOf(minute_requests', minute_requests)
                /\ IsSuffixOf(day_requests', day_requests)]_vars
    /\ [](\A t \in Threads : \A n \in RecordArgs :
            (pc[t] = "idle" /\ LockFree /\ Len(minute_tokens) < MaxTokenEntries)
                => ENABLED RecordAdditionalTokens(t, n))

\* Tokens were recorded after an admission although the minute's token
\* limit was used up: the window holds more than per_minute_tokens.
C14_Witness ==
    /\ minute_requests # <<>>
    /\ Len(minute_tokens) > Len(minute_requests)
    /\ minute_tokens[Len(minute_tokens)] = <<mono, 2>>
    /\ SumTokens(minute_tokens) > per_minute_tokens

\* C15: no thread sleeps while it holds the lock: the lock is held only by
\* a thread inside the critical section, and a sleeping thread has left it,
\* so that while it sleeps the lock is free or held by another thread.
C15_NoSleepUnderLock ==
    \A t \in Threads :
        /\ lock = t => pc[t] = "locked"
        /\ pc[t] = "sleep" => lock # t

\* While one caller sleeps, its wake-up time still ahead, another has taken
\* the lock and is about to be admitted.
C15_Witness ==
    \E t, u \in Threads :
        /\ t # u
        /\ pc[t] = "sleep" /\ wake_at[t] > mono
        /\ pc[u] = "locked" /\ lock = u
        /\ Admitted(u)

\* The wait of line 105 for a call that needs n tokens and read the
\* monotonic clock as now, from the windows as they are: the largest of
\* 60 - (now - oldest timestamp) over the failing per-minute checks (1 s when
\* there is none to take), and at least 0.5 s.
WaitOf(now, n) ==
    LET w1 == IF ~minute_capacity_available(minute_requests)
              THEN << MinuteWindow - (now - Head(minute_requests)) >>
              ELSE <<>>
        w2 == IF ~token_capacity_available(minute_tokens, n) /\ minute_tokens # <<>>
              THEN << MinuteWindow - (now - Head(minute_tokens)[1]) >>
              ELSE <<>>
    IN Max2(MaxOf(w1 \o w2, DefaultWait), MinSleep)

\* Thread t goes to sleep in this step.
SleepStep(t) == CommitStep(t) /\ pc'[t] = "sleep"

\* Thread t makes its first check after a sleep in this step.
CheckAfterSleep(t) == CheckStep(t) /\ slept[t]

\* What holds of the wait, whatever the token usage: its length, and that it
\* ends when the oldest entry of each failing window has expired.
WaitUntilOldestExpires(t) ==
    /\ wake_at'[t] = mono + WaitOf(now_monotonic[t], tokens_needed[t])
    /\ wake_at'[t] - mono >= MinSleep
    /\ ~minute_capacity_available(minute_requests) =>
          wake_at'[t] >= Head(minute_requests) + MinuteWindow
    /\ (~token_capacity_available(minute_tokens, tokens_needed[t])
            /\ minute_tokens # <<>>) =>
          wake_at'[t] >= Head(minute_tokens)[1] + MinuteWindow

\* C16 (corrected statement): when only per-minute checks fail, acquire
\* sleeps for the largest of 60 - (now - oldest entry timestamp) over the
\* failing minute checks, at least 0.5 s; with no other caller acting in
\* between, at the next check after the sleep the request check and the
\* daily check pass, and a token check that still fails on the entries the
\* caller went to sleep on has seen the oldest of them expire: the request
\* is then admitted or, the remaining tokens still being too many, the
\* caller sleeps again.
C16_WaitUntilOldestExpires ==
    [][/\ SleepStep(1) => WaitUntilOldestExpires(1)
       /\ CheckAfterSleep(1) =>
            /\ minute_capacity_available(minute_requests')
            /\ daily_capacity_available(day_requests')
            /\ (~token_capacity_available(minute_tokens, tokens_needed[1])
                    /\ minute_tokens # <<>>) =>
                  Len(minute_tokens') < Len(minute_tokens)]_vars

\* C16 (original statement): ... the wait is long enough that every failing
\* constraint has cleared: the next check after the sleep admits the request.
\* (Taken here for the requests that fit the per-minute token limit at all.)
C16_AsStated ==
    [][/\ SleepStep(1) => WaitUntilOldestExpires(1)
       /\ (CheckAfterSleep(1) /\ tokens_needed[1] <= per_minute_tokens) =>
            /\ minute_capacity_available(minute_requests')
            /\ daily_capacity_available(day_requests')
            /\ token_capacity_available(minute_tokens', tokens_needed[1])]_vars

\* The request window is full and its oldest entry expires in a quarter of
\* a second: the caller sleeps the floor of 0.5 s.
C16_Witness ==
    /\ pc[1] = "sleep"
    /\ ~minute_capacity_available(minute_requests)
    /\ Head(minute_requests) + MinuteWindow = mono + 1
    /\ wake_at[1] = mono + MinSleep
    /\ MinSleep > 1

\* generate_content is called in this step.
RemoteCallStep == remote_calls' # remote_calls

\* The acquire of an attempt returned False and the attempt ends in this
\* step.
DeniedStep == pc[1] = "returned" /\ ret[1] = "False" /\ pc'[1] # "returned"

\* C17: generate_content is called only in an attempt whose acquire has
\* returned True, each call on its own admission (the calls, this one
\* included, are as many as the admissions), so that the remote calls never
\* exceed the admissions; every attempt of the wrapped function, retries
\* included, ends after an acquire of its own; and when acquire returns False
\* the function returns None with no remote call, no sleep and no further
\* attempt.
C17_RemoteCallOnlyAfterAdmission ==
    /\ [](remote_calls <= Len(admissions))
    /\ [][/\ RemoteCallStep =>
               /\ remote_calls' = remote_calls + 1
               /\ w_pc = "attempt" /\ pc[1] = "returned" /\ ret[1] = "True"
               /\ remote_calls' = Len(admissions)
          /\ invocations' = invocations + 1 =>
               (pc[1] = "returned" /\ pc'[1] = "idle")
          /\ DeniedStep =>
               /\ remote_calls' = remote_calls
               /\ invocations' = invocations + 1
               /\ w_pc' = "done" /\ w_result' = "None"
               /\ w_slept' = w_slept]_vars

\* The first attempt was admitted and its remote call failed; the second
\* attempt, after the retry delay, found the daily window full: the wrapper
\* returned None without another remote call and with one attempt unused.
C17_Witness ==
    /\ w_pc = "done" /\ w_result = "None"
    /\ outcomes \in Seq(Outcomes) /\ Len(outcomes) = 2
    /\ outcomes[1] \in CaughtErrors /\ outcomes[2] = "None"
    /\ invocations = 2 /\ retries = DefaultRetries
    /\ w_slept = delay
    /\ ~daily_capacity_available(day_requests)
    /\ remote_calls = Len(admissions)
    /\ calls = remote_calls + 1

\* The timestamps of a window, oldest-inserted first.
RequestStamps(q) == q
TokenStamps(q) == [i \in DOMAIN q |-> q[i][1]]

\* A sequence of timestamps is non-decreasing.
NonDecreasing(q) == \A i, j \in DOMAIN q : i < j => q[i] <= q[j]

\* C18: in every reachable state each of the three windows is ordered
\* oldest-first, its timestamps non-decreasing from head to tail (so that
\* pruning from the head leaves no expired entry behind a non-expired one).
C18_WindowsOrdered ==
    /\ NonDecreasing(RequestStamps(minute_requests))
    /\ NonDecreasing(TokenStamps(minute_tokens))
    /\ NonDecreasing(RequestStamps(day_requests))

\* C19: in every reachable state, after any sequence of concurrent acquire
\* and record_additional_tokens calls, the minute request window holds at
\* most per_minute_requests entries and the daily window at most
\* per_day_requests.
C19_WindowsWithinLimits ==
    /\ Len(minute_requests) <= per_minute_requests
    /\ Len(day_requests) <= per_day_requests

\* Both windows are full at once, after the minute window has rolled over,
\* and both threads have been admitted.
C19_Witness ==
    /\ Len(minute_requests) = per_minute_requests
    /\ Len(day_requests) = per_day_requests
    /\ Len(admissions) > per_minute_requests
    /\ \A t \in Threads : pc[t] = "returned" /\ ret[t] = "True"

\* C20: an acquire iteration changes the windows only as follows: its check
\* removes expired entries from the heads; leaving the critical section it
\* appends exactly one entry to each of the three windows when it admits,
\* and changes no window when it does not (it goes to sleep, or returns False
\* on daily denial).
C20_NoAdmissionNoConsumption ==
    [][\A t \in Threads :
          /\ CheckStep(t) =>
                /\ IsSuffixOf(minute_requests', minute_requests)
                /\ IsSuffixOf(minute_tokens', minute_tokens)
                /\ IsSuffixOf(day_requests', day_requests)
                /\ admissions' = admissions
          /\ (CommitStep(t) /\ ret'[t] = "True") =>
                /\ minute_requests' = Append(minute_requests, now_monotonic[t])
                /\ day_requests' = Append(day_requests, now_wall[t])
                /\ minute_tokens' =
                       Append(minute_tokens, <<now_monotonic[t], tokens_needed[t]>>)
                /\ Len(admissions') = Len(admissions) + 1
          /\ (CommitStep(t) /\ ret'[t] # "True") =>
                /\ pc'[t] = "sleep" \/ (pc'[t] = "returned" /\ ret'[t] = "False")
                /\ windows' = windows
                /\ admissions' = admissions]_vars

\* A caller that waited on a per-minute limit has then been denied on the
\* daily limit: the daily window holds per_day_requests entries, one for
\* each admission made, and the minute windows only unexpired ones.
C20_Witness ==
    \E t \in Threads :
        /\ pc[t] = "returned" /\ ret[t] = "False" /\ slept[t]
        /\ Len(day_requests) = per_day_requests
        /\ Len(admissions) = per_day_requests
        /\ minute_requests # <<>>
        /\ Len(minute_requests) < Len(admissions)

====
